---- MODULE Spec2Model ----
(***************************************************************************)
(* Model of the /infer pipeline controller of codingchallenge_qa_service   *)
(* (src/src/codingchallenge_qa_service/routers/infer.py).                  *)
(*                                                                         *)
(* Every request is one asyncio task running infer(); asyncio.gather adds  *)
(* two child tasks (question sensitivity, paraphrase lookup).  An action   *)
(* of the model is one uninterrupted run of a task between two awaits of   *)
(* a downstream service.  Texts are sequences of one-character strings so  *)
(* that str.strip and str.lower are computed, not assumed.                 *)
(***************************************************************************)
EXTENDS Integers, Sequences, FiniteSets, TLC

\* ------------------------------------------------------------------ bounds
\* longest run of whitespace put around a word of the input texts
MaxPad == 1

\* ------------------------------------------------------------------- texts
\* Python's None, where a text is expected
None == <<"<None>">>

Ws == {" ", "\t", "\n"}

Upper == <<"A","B","C","D","E","F","G","H","I","J","K","L","M",
           "N","O","P","Q","R","S","T","U","V","W","X","Y","Z">>
Lower == <<"a","b","c","d","e","f","g","h","i","j","k","l","m",
           "n","o","p","q","r","s","t","u","v","w","x","y","z">>

\* str.lower on one character
LowerChar(c) ==
    IF \E i \in 1..26 : Upper[i] = c
    THEN Lower[CHOOSE i \in 1..26 : Upper[i] = c]
    ELSE c

\* str.lower
StrLower(s) == [i \in 1..Len(s) |-> LowerChar(s[i])]

RECURSIVE LStrip(_)
LStrip(s) == IF s # <<>> /\ Head(s) \in Ws THEN LStrip(Tail(s)) ELSE s

RECURSIVE RStrip(_)
RStrip(s) ==
    IF s # <<>> /\ s[Len(s)] \in Ws THEN RStrip(SubSeq(s, 1, Len(s) - 1)) ELSE s

\* a strip that removes every whitespace character, inner ones too
Strip_AllWhitespace(s) == SelectSeq(s, LAMBDA c : c \notin Ws)

\* str.strip: removes leading and trailing whitespace, nothing else
Strip(s) == RStrip(LStrip(s))

EN == "EN"
DE == "DE"
Language == {EN, DE}

\* infer.py:31
UnknownResponse(language) ==
    IF language = EN
    THEN {<<"u","n","k","n","o","w","n">>, <<"u","n","k","n","o","w","n",".">>}
    ELSE {<<"u","n","b","e","k","a","n","n","t">>,
          <<"u","n","b","e","k","a","n","n","t",".">>}

\* a validator that compares without lowering the answer
check_answer_validity_case_sensitive(answer, language) ==
    ~ (answer = None \/ answer = <<>> \/ answer \in UnknownResponse(language))

\* infer.py:30-36
check_answer_validity(answer, language) ==
    IF answer = None \/ answer = <<>> THEN FALSE
    ELSE IF StrLower(answer) \in UnknownResponse(language) THEN FALSE
    ELSE TRUE

\* a cleaning that leaves the question as it came
clean_question_Identity(question) == question

\* infer.py:39-42
clean_question(question) == Strip(question)

\* infer.py:45-47; None.strip() raises AttributeError, modelled by the caller
clean_answer(answer) == Strip(answer)

\* ------------------------------------------------------- input domains
Pad(n) == [i \in 1..n |-> " "]

QWord == <<"w","h","o","?">>

\* request_body.query: a word with up to MaxPad blanks on either side
Questions == {Pad(l) \o QWord \o Pad(m) : l \in 0..MaxPad, m \in 0..MaxPad}

Paris == <<"P","a","r","i","s">>

\* what the sensitivity service answers: a verdict, or "raise" for an exception
SensResults == {"SAFE", "UNSAFE", "UNCERTAIN", "raise"}

\* what the paraphrase service answers
NoMatch == [kind |-> "none", gs_answer_content_str |-> None]
ParaRaise == [kind |-> "raise", gs_answer_content_str |-> None]
ParaMatches ==
    {[kind |-> "match", gs_answer_content_str |-> a] :
        a \in {Paris, <<" ">> \o Paris \o Pad(MaxPad), <<"u","n","k","n","o","w","n">>}}
ParaResults == {NoMatch, ParaRaise} \cup ParaMatches

\* what the prefiltering service answers: a document, nothing, an exception
RetrResults == {"doc", "empty", "raise"}

\* what the inference service answers
InfRaise == [kind |-> "raise", answer |-> None]
\* a response without an "answer" key
InfNoAnswer == [kind |-> "no_answer", answer |-> None]
InfAnswers ==
    {None, <<>>, Pad(MaxPad),
     <<"U","n","k","n","o","w","n",".">>,
     <<" ">> \o <<"u","n","k","n","o","w","n">> \o Pad(MaxPad),
     <<"U","n","b","e","k","a","n","n","t">>,
     <<"\n">> \o Paris \o Pad(MaxPad)}
InfResults == {InfRaise, InfNoAnswer} \cup {[kind |-> "ok", answer |-> a] : a \in InfAnswers}

\* runs of at most n whitespace characters
Pads(n) == UNION {[1..k -> Ws] : k \in 0..n}

Words ==
    {<<>>, Paris, <<".">>,
     <<"u","n","k","n","o","w","n">>, <<"U","n","k","n","o","w","n">>,
     <<"u","n","k","n","o","w","n",".">>, <<"U","N","K","N","O","W","N",".">>,
     <<"u","n","k","n","o","w">>, <<"u","n"," ","k","n","o","w","n">>,
     <<"u","n","b","e","k","a","n","n","t">>, <<"U","n","b","e","k","a","n","n","t">>,
     <<"U","N","B","E","K","A","N","N","T",".">>}

\* answers handed to the validator: None, or a word inside whitespace
AnswerInputs == {None} \cup {l \o w \o t : l \in Pads(MaxPad), w \in Words, t \in Pads(MaxPad)}

Envs ==
    [sensQ : SensResults, para : ParaResults, retr : RetrResults,
     inf : InfResults, sensA : SensResults]

Bodies == [query : Questions, language : Language]

\* ------------------------------------------------------------------ state
VARIABLES
    reqs,                  \* the requests being served
    body,                  \* request_body of each request
    env,                   \* what each downstream service answers to the request
    pc,                    \* where infer() of the request is suspended
    sens,                  \* state of the gathered _question_has_sensitive_content task
    para,                  \* state of the gathered _get_answer_from_paraphrase task
    cleaned_question,
    has_sensitive_content, \* result of the sensitivity task
    paraphrase,            \* result of the paraphrase task
    cleaned_answer,
    should_store,          \* request.state.transaction.should_store
    calls,                 \* downstream calls and validator runs, in order
    trace,                 \* fact maps passed to request.state.transaction.record
    resp,                  \* what the request was answered with (at most one entry)
    arg,                   \* arguments of a direct call of _check_answer_validity
    result                 \* what that call returned

vars ==
    <<reqs, body, env, pc, sens, para, cleaned_question, has_sensitive_content,
      paraphrase, cleaned_answer, should_store, calls, trace, resp, arg, result>>

\* Python's None as the result of the paraphrase task
NoParaphrase == [found |-> FALSE, gs_answer_content_str |-> None]

\* no direct call of the validator
NoArg == [answer |-> None, language |-> EN]
NoResult == [how |-> "none", valid |-> FALSE]

InitWith(ids, bodyOf, envOf) ==
    /\ reqs = ids
    /\ body = bodyOf
    /\ env = envOf
    /\ pc = [r \in ids |-> "start"]
    /\ sens = [r \in ids |-> "new"]
    /\ para = [r \in ids |-> "new"]
    /\ cleaned_question = [r \in ids |-> None]
    /\ has_sensitive_content = [r \in ids |-> FALSE]
    /\ paraphrase = [r \in ids |-> NoParaphrase]
    /\ cleaned_answer = [r \in ids |-> None]
    /\ should_store = [r \in ids |-> FALSE]
    /\ calls = [r \in ids |-> <<>>]
    /\ trace = [r \in ids |-> <<>>]
    /\ resp = [r \in ids |-> <<>>]
    /\ arg = NoArg
    /\ result = NoResult

\* one request, any question, any behaviour of the four services
Init ==
    \E b \in Bodies, e \in Envs :
        InitWith({"req"}, [r \in {"req"} |-> b], [r \in {"req"} |-> e])

\* two requests with the same question that get the same answers from the
\* sensitivity, prefiltering and inference services; the paraphrase service
\* raises for "req" and finds nothing for "twin"
InitPair ==
    \E b \in Bodies, e \in Envs :
        /\ e.para = ParaRaise
        /\ InitWith({"req", "twin"},
                    [r \in {"req", "twin"} |-> b],
                    [r \in {"req", "twin"} |->
                        IF r = "req" THEN e ELSE [e EXCEPT !.para = NoMatch]])

\* two requests with the same question that get the same answers from all
\* four services
InitSame ==
    \E b \in Bodies, e \in Envs :
        InitWith({"req", "twin"},
                 [r \in {"req", "twin"} |-> b],
                 [r \in {"req", "twin"} |-> e])

\* ------------------------------------------------------- records of the run
\* a call of a downstream service (or a run of the validator) with its text
Call(svc, site, text) == [svc |-> svc, site |-> site, text |-> text]

\* a fact map handed to transaction.record: its top-level keys, and the
\* pipeline step it carries (if any) with the keys of that step
Fact(by, top, step, fields) == [by |-> by, top |-> top, step |-> step, fields |-> fields]

ErrorFact(by, msg) == Fact(by, {"error", "exc_info"}, "", {msg})

\* responses: InferResponse (infer.py:234-241, 265-272), Response(status_code),
\* and the rendering of a raised HTTPException / of an unhandled exception
InferResponse(answer, question, is_gs, outcome) ==
    [status |-> 200, outcome |-> outcome, answer |-> answer, question |-> question,
     answer_validity |-> "valid", is_gs_answer |-> is_gs, detail |-> ""]

Response(status_code, outcome) ==
    [status |-> status_code, outcome |-> outcome, answer |-> None, question |-> None,
     answer_validity |-> "", is_gs_answer |-> FALSE, detail |-> ""]

HTTPException(status_code, detail, outcome) ==
    [status |-> status_code, outcome |-> outcome, answer |-> None, question |-> None,
     answer_validity |-> "", is_gs_answer |-> FALSE, detail |-> detail]

\* infer.py:58
SensitivityFailure ==
    HTTPException(500, "Sensitive Content Detection Exception.",
                  "UpstreamFailure(sensitivity)")

\* a prefiltering failure reported like a missing document
PrefilterFailure_NotFound ==
    HTTPException(404, "Failed to fetch prefiltered document from ElasticSearch.",
                  "UpstreamFailure(retrieval)")

\* infer.py:120-122
PrefilterFailure ==
    HTTPException(412, "Failed to fetch prefiltered document from ElasticSearch.",
                  "UpstreamFailure(retrieval)")

\* infer.py:198
InferenceFailure == HTTPException(400, "QAService Exception", "UpstreamFailure(inference)")

\* an exception that no handler of infer.py catches: the framework answers 500
UnhandledError == HTTPException(500, "Internal Server Error", "UnhandledError")

\* ------------------------------------------------------------- the pipeline
\* a check that rejects the UNSAFE verdict only
IsSensitive_OnlyUnsafe(sensitivity) == sensitivity = "UNSAFE"

\* infer.py:82 and 104: anything but SAFE is sensitive
IsSensitive(sensitivity) == sensitivity # "SAFE"

\* a controller that looks at the paraphrase match first
Branch_ParaphraseFirst(has_sensitive, para_result) ==
    IF para_result.found THEN "gs"
    ELSE IF has_sensitive THEN "reject"
    ELSE "prefilter"

\* a controller that ignores the paraphrase match
Branch_NoGoldStandard(has_sensitive, para_result) ==
    IF has_sensitive THEN "reject" ELSE "prefilter"

\* infer.py:230-243: what infer() does with the two gathered results
Branch(has_sensitive, para_result) ==
    IF has_sensitive THEN "reject"
    ELSE IF para_result.found THEN "gs"
    ELSE "prefilter"

\* a gold-standard answer that is cleaned like a model answer
GsAnswer_Cleaned(para_result) == clean_answer(para_result.gs_answer_content_str)

\* infer.py:235: the answer of a gold-standard response
GsAnswer(para_result) == para_result.gs_answer_content_str

\* a check that takes every answer of the prefiltering service for a document
NoDocument_Never(doc) == FALSE

\* infer.py:250 (and 127, 133): "not prefiltered_doc"
NoDocument(doc) == doc = "empty"

\* infer.py:207-225: the request is received, cleaned and recorded, and
\* asyncio.gather creates the two tasks
Receive(r) ==
    /\ pc[r] = "start"
    /\ should_store' = [should_store EXCEPT ![r] = TRUE]
    /\ cleaned_question' = [cleaned_question EXCEPT ![r] = clean_question(body[r].query)]
    /\ trace' = [trace EXCEPT ![r] = Append(@,
          Fact("infer", {"request_body", "client", "course_id", "user", "question_uuid",
                         "question", "language", "allow_annotation"}, "", {}))]
    /\ sens' = [sens EXCEPT ![r] = "ready"]
    /\ para' = [para EXCEPT ![r] = "ready"]
    /\ pc' = [pc EXCEPT ![r] = "gather"]
    /\ UNCHANGED <<arg, result, reqs, body, env, has_sensitive_content, paraphrase, cleaned_answer,
                   calls, resp>>

\* infer.py:62-64, 50-54: first step of the sensitivity task, up to its await
SensStart(r) ==
    /\ sens[r] = "ready"
    /\ calls' = [calls EXCEPT ![r] =
          Append(@, Call("sensitivity", "question", cleaned_question[r]))]
    /\ sens' = [sens EXCEPT ![r] = "await"]
    /\ UNCHANGED <<arg, result, reqs, body, env, pc, para, cleaned_question, has_sensitive_content,
                   paraphrase, cleaned_answer, should_store, trace, resp>>

\* a lookup that is only started once the question was found safe
ParaStart_AfterVerdict(r) ==
    /\ para[r] = "ready"
    /\ sens[r] = "done"
    /\ ~ has_sensitive_content[r]
    /\ calls' = [calls EXCEPT ![r] =
          Append(@, Call("paraphrase", "question", cleaned_question[r]))]
    /\ para' = [para EXCEPT ![r] = "await"]
    /\ UNCHANGED <<arg, result, reqs, body, env, pc, sens, cleaned_question,
                   has_sensitive_content, paraphrase, cleaned_answer, should_store,
                   trace, resp>>

\* infer.py:142-150: first step of the paraphrase task, up to its await.  The
\* event loop runs ready tasks in creation order: the sensitivity task first.
ParaStart(r) ==
    /\ para[r] = "ready"
    /\ sens[r] # "ready"
    /\ calls' = [calls EXCEPT ![r] =
          Append(@, Call("paraphrase", "question", cleaned_question[r]))]
    /\ para' = [para EXCEPT ![r] = "await"]
    /\ UNCHANGED <<arg, result, reqs, body, env, pc, sens, cleaned_question, has_sensitive_content,
                   paraphrase, cleaned_answer, should_store, trace, resp>>

\* infer.py:55-59 (exception) and 65-82 (verdict): the sensitivity service answers
SensReturn(r) ==
    /\ sens[r] = "await"
    /\ IF env[r].sensQ = "raise"
       THEN /\ trace' = [trace EXCEPT ![r] = Append(@,
                  ErrorFact("sensitive_content_detection_question",
                            "Exception in Sensitive Content Detection."))]
            /\ sens' = [sens EXCEPT ![r] = "raised"]
            /\ UNCHANGED has_sensitive_content
       ELSE /\ trace' = [trace EXCEPT ![r] = Append(@,
                  Fact("sensitive_content_detection_question",
                       {"pipeline_steps", "question_sensitivity"},
                       "sensitive_content_detection_question",
                       {"sensitivity", "model_name", "duration"}))]
            /\ sens' = [sens EXCEPT ![r] = "done"]
            /\ has_sensitive_content' =
                  [has_sensitive_content EXCEPT ![r] = IsSensitive(env[r].sensQ)]
    /\ UNCHANGED <<arg, result, reqs, body, env, pc, para, cleaned_question, paraphrase,
                   cleaned_answer, should_store, calls, resp>>

\* a wrapper that lets the exception of the paraphrase service escape
ParaTaskEnd_Propagates(kind) == IF kind = "raise" THEN "raised" ELSE "done"

\* infer.py:144-153: how the paraphrase task ends for an answer of the
\* service; the except clause has no raise, so it always returns
ParaTaskEnd(kind) == "done"

\* infer.py:151-166: the paraphrase service answers; an exception is
\* logged and recorded, and the task returns None
ParaReturn(r) ==
    /\ para[r] = "await"
    /\ para' = [para EXCEPT ![r] = ParaTaskEnd(env[r].para.kind)]
    /\ IF env[r].para.kind = "raise"
       THEN /\ trace' = [trace EXCEPT ![r] = Append(@,
                  ErrorFact("paraphrase", "Exception in Paraphrasing."))]
            /\ paraphrase' = [paraphrase EXCEPT ![r] = NoParaphrase]
       ELSE IF env[r].para.kind = "match"
       THEN /\ trace' = [trace EXCEPT ![r] = Append(@,
                  Fact("paraphrase", {"pipeline_steps"}, "paraphrase",
                       {"result", "duration"}))]
            /\ paraphrase' = [paraphrase EXCEPT ![r] =
                  [found |-> TRUE,
                   gs_answer_content_str |-> env[r].para.gs_answer_content_str]]
       ELSE /\ paraphrase' = [paraphrase EXCEPT ![r] = NoParaphrase]
            /\ UNCHANGED trace
    /\ UNCHANGED <<arg, result, reqs, body, env, pc, sens, cleaned_question, has_sensitive_content,
                   cleaned_answer, should_store, calls, resp>>

\* a join that, when the sensitivity task raised, answers with the
\* paraphrase match if the lookup had already returned one
GatherRaise_PreferCompleted(r) ==
    /\ pc[r] = "gather"
    /\ sens[r] = "raised" \/ para[r] = "raised"
    /\ para[r] # "ready"
    /\ resp' = [resp EXCEPT ![r] = Append(@,
          IF para[r] = "done" /\ paraphrase[r].found
          THEN InferResponse(GsAnswer(paraphrase[r]), cleaned_question[r], TRUE,
                             "GoldStandardAnswer")
          ELSE IF sens[r] = "raised" THEN SensitivityFailure ELSE UnhandledError)]
    /\ pc' = [pc EXCEPT ![r] = "done"]
    /\ UNCHANGED <<arg, result, reqs, body, env, sens, para, cleaned_question,
                   has_sensitive_content, paraphrase, cleaned_answer, should_store,
                   calls, trace>>

\* infer.py:225 with 58: the sensitivity task raised, and gather (without
\* return_exceptions) hands the HTTPException to infer() at once; the
\* paraphrase task is not cancelled and not waited for
GatherRaise(r) ==
    /\ pc[r] = "gather"
    /\ sens[r] = "raised" \/ para[r] = "raised"
    /\ para[r] # "ready"
    /\ resp' = [resp EXCEPT ![r] = Append(@,
          IF sens[r] = "raised" THEN SensitivityFailure ELSE UnhandledError)]
    /\ pc' = [pc EXCEPT ![r] = "done"]
    /\ UNCHANGED <<arg, result, reqs, body, env, sens, para, cleaned_question, has_sensitive_content,
                   paraphrase, cleaned_answer, should_store, calls, trace>>

\* infer.py:225-248: both tasks returned; infer() branches and, if it goes
\* on, calls the prefiltering service (110-116)
GatherJoin(r) ==
    /\ pc[r] = "gather"
    /\ sens[r] = "done"
    /\ para[r] = "done"
    /\ LET b == Branch(has_sensitive_content[r], paraphrase[r]) IN
       IF b = "reject"
       THEN /\ resp' = [resp EXCEPT ![r] =
                  Append(@, Response(400, "RejectedSensitiveQuestion"))]
            /\ pc' = [pc EXCEPT ![r] = "done"]
            /\ UNCHANGED calls
       ELSE IF b = "gs"
       THEN /\ resp' = [resp EXCEPT ![r] = Append(@,
                  InferResponse(GsAnswer(paraphrase[r]),
                                cleaned_question[r], TRUE, "GoldStandardAnswer"))]
            /\ pc' = [pc EXCEPT ![r] = "done"]
            /\ UNCHANGED calls
       ELSE /\ calls' = [calls EXCEPT ![r] =
                  Append(@, Call("prefiltering", "question", cleaned_question[r]))]
            /\ pc' = [pc EXCEPT ![r] = "prefilter"]
            /\ UNCHANGED resp
    /\ UNCHANGED <<arg, result, reqs, body, env, sens, para, cleaned_question, has_sensitive_content,
                   paraphrase, cleaned_answer, should_store, trace>>

\* number of calls of a service from a call site
Attempts(r, svc, site) ==
    Cardinality({i \in 1..Len(calls[r]) : calls[r][i].svc = svc /\ calls[r][i].site = site})

\* an except clause that asks the prefiltering service a second time
RetryPrefilter_Once(r) ==
    env[r].retr = "raise" /\ Attempts(r, "prefiltering", "question") < 2

\* infer.py:117-122: the except clause records, logs and raises; the
\* service is not asked again
RetryPrefilter(r) == FALSE

\* infer.py:117-136 and 250-255: the prefiltering service answers; on a
\* document infer() calls the inference service (173-176)
PrefilterReturn(r) ==
    /\ pc[r] = "prefilter"
    /\ IF RetryPrefilter(r)
       THEN /\ calls' = [calls EXCEPT ![r] =
                  Append(@, Call("prefiltering", "question", cleaned_question[r]))]
            /\ UNCHANGED <<trace, resp, pc>>
       ELSE IF env[r].retr = "raise"
       THEN /\ trace' = [trace EXCEPT ![r] = Append(@,
                  ErrorFact("preselection", "Exception in Prefiltering."))]
            /\ resp' = [resp EXCEPT ![r] = Append(@, PrefilterFailure)]
            /\ pc' = [pc EXCEPT ![r] = "done"]
            /\ UNCHANGED calls
       ELSE /\ trace' = [trace EXCEPT ![r] = Append(@,
                  Fact("preselection", {"pipeline_steps"}, "preselection",
                       {"result", "duration"}))]
            /\ IF NoDocument(env[r].retr)
               THEN /\ resp' = [resp EXCEPT ![r] =
                          Append(@, Response(404, "NoDocumentFound"))]
                    /\ pc' = [pc EXCEPT ![r] = "done"]
                    /\ UNCHANGED calls
               ELSE /\ calls' = [calls EXCEPT ![r] =
                          Append(@, Call("inference", "question", cleaned_question[r]))]
                    /\ pc' = [pc EXCEPT ![r] = "inference"]
                    /\ UNCHANGED resp
    /\ UNCHANGED <<arg, result, reqs, body, env, sens, para, cleaned_question, has_sensitive_content,
                   paraphrase, cleaned_answer, should_store>>

\* infer.py:177-200 and 257-262: the inference service answers; the answer
\* is cleaned and validated, and a valid one is sent to the sensitivity
\* service (86-87).  A response without "answer" raises KeyError at 181,
\* inside the try.  An answer of None makes _clean_answer raise
\* AttributeError, which nothing catches.
InferenceReturn(r) ==
    /\ pc[r] = "inference"
    /\ IF env[r].inf.kind \in {"raise", "no_answer"}
       THEN /\ trace' = [trace EXCEPT ![r] = Append(@,
                  ErrorFact("inference", "Exception in QAService."))]
            /\ resp' = [resp EXCEPT ![r] = Append(@, InferenceFailure)]
            /\ pc' = [pc EXCEPT ![r] = "done"]
            /\ UNCHANGED <<calls, cleaned_answer>>
       ELSE /\ trace' = [trace EXCEPT ![r] = Append(@,
                  Fact("inference", {"model_name", "answer", "pipeline_steps"}, "inference",
                       {"model_name", "inference_body", "duration"}))]
            /\ IF env[r].inf.answer = None
               THEN /\ resp' = [resp EXCEPT ![r] = Append(@, UnhandledError)]
                    /\ pc' = [pc EXCEPT ![r] = "done"]
                    /\ UNCHANGED <<calls, cleaned_answer>>
               ELSE LET a == clean_answer(env[r].inf.answer)
                        v == Call("validator", "answer", a) IN
                    /\ cleaned_answer' = [cleaned_answer EXCEPT ![r] = a]
                    /\ IF ~ check_answer_validity(a, body[r].language)
                       THEN /\ calls' = [calls EXCEPT ![r] = Append(@, v)]
                            /\ resp' = [resp EXCEPT ![r] =
                                  Append(@, Response(404, "InvalidModelAnswer"))]
                            /\ pc' = [pc EXCEPT ![r] = "done"]
                       ELSE /\ calls' = [calls EXCEPT ![r] =
                                  @ \o <<v, Call("sensitivity", "answer", a)>>]
                            /\ pc' = [pc EXCEPT ![r] = "answer_sensitivity"]
                            /\ UNCHANGED resp
    /\ UNCHANGED <<arg, result, reqs, body, env, sens, para, cleaned_question, has_sensitive_content,
                   paraphrase, should_store>>

\* infer.py:55-59, 88-104 and 262-272: the sensitivity service answers for
\* the answer
AnswerSensReturn(r) ==
    /\ pc[r] = "answer_sensitivity"
    /\ IF env[r].sensA = "raise"
       THEN /\ trace' = [trace EXCEPT ![r] = Append(@,
                  ErrorFact("sensitive_content_detection_answer",
                            "Exception in Sensitive Content Detection."))]
            /\ resp' = [resp EXCEPT ![r] = Append(@, SensitivityFailure)]
       ELSE /\ trace' = [trace EXCEPT ![r] = Append(@,
                  Fact("sensitive_content_detection_answer",
                       {"pipeline_steps", "answer_sensitivity"},
                       "sensitive_content_detection_answer",
                       {"sensitivity", "model_name", "duration"}))]
            /\ IF IsSensitive(env[r].sensA)
               THEN resp' = [resp EXCEPT ![r] =
                       Append(@, Response(400, "RejectedSensitiveAnswer"))]
               ELSE resp' = [resp EXCEPT ![r] = Append(@,
                       InferResponse(cleaned_answer[r], cleaned_question[r], FALSE,
                                     "ModelAnswer"))]
    /\ pc' = [pc EXCEPT ![r] = "done"]
    /\ UNCHANGED <<arg, result, reqs, body, env, sens, para, cleaned_question, has_sensitive_content,
                   paraphrase, cleaned_answer, should_store, calls>>

Next ==
    \E r \in reqs :
        \/ Receive(r)
        \/ SensStart(r)
        \/ ParaStart(r)
        \/ SensReturn(r)
        \/ ParaReturn(r)
        \/ GatherRaise(r)
        \/ GatherJoin(r)
        \/ PrefilterReturn(r)
        \/ InferenceReturn(r)
        \/ AnswerSensReturn(r)

Spec == Init /\ [][Next]_vars

\* every task that can take a step eventually takes it: the event loop runs
\* every ready task and every downstream call answers or raises
FairSpec == Spec /\ WF_vars(Next)

SpecPair == InitPair /\ [][Next]_vars

SpecSame == InitSame /\ [][Next]_vars

\* ------------------------------------------------- the validator on its own
InitValidator ==
    /\ reqs = {}
    /\ body = <<>>
    /\ env = <<>>
    /\ pc = <<>>
    /\ sens = <<>>
    /\ para = <<>>
    /\ cleaned_question = <<>>
    /\ has_sensitive_content = <<>>
    /\ paraphrase = <<>>
    /\ cleaned_answer = <<>>
    /\ should_store = <<>>
    /\ calls = <<>>
    /\ trace = <<>>
    /\ resp = <<>>
    /\ arg \in [answer : AnswerInputs, language : Language]
    /\ result = NoResult

\* infer.py:30-36: _check_answer_validity(answer, language), called directly
Validate ==
    /\ result.how = "none"
    /\ result' = [how |-> "validator",
                  valid |-> check_answer_validity(arg.answer, arg.language)]
    /\ UNCHANGED <<arg, reqs, body, env, pc, sens, para, cleaned_question,
                   has_sensitive_content, paraphrase, cleaned_answer, should_store,
                   calls, trace, resp>>

\* infer.py:257-259: the validator on the answer cleaned by _clean_answer,
\* as infer() calls it (an answer of None does not get that far)
CleanAndValidate ==
    /\ result.how = "none"
    /\ arg.answer # None
    /\ result' = [how |-> "cleaned",
                  valid |-> check_answer_validity(clean_answer(arg.answer), arg.language)]
    /\ UNCHANGED <<arg, reqs, body, env, pc, sens, para, cleaned_question,
                   has_sensitive_content, paraphrase, cleaned_answer, should_store,
                   calls, trace, resp>>

NextValidator == Validate \/ CleanAndValidate

\* --------------------------------------------- the cleaning functions alone
\* a text to clean
InitClean == InitValidator /\ arg.answer # None

\* infer.py:39-42: _clean_question applied once and twice
CleanQuestionTwice ==
    /\ result.how = "none"
    /\ result' = [how |-> "clean_question", valid |-> FALSE,
                  once |-> clean_question(arg.answer),
                  twice |-> clean_question(clean_question(arg.answer))]
    /\ UNCHANGED <<arg, reqs, body, env, pc, sens, para, cleaned_question,
                   has_sensitive_content, paraphrase, cleaned_answer, should_store,
                   calls, trace, resp>>

\* infer.py:45-47: _clean_answer applied once and twice
CleanAnswerTwice ==
    /\ result.how = "none"
    /\ result' = [how |-> "clean_answer", valid |-> FALSE,
                  once |-> clean_answer(arg.answer),
                  twice |-> clean_answer(clean_answer(arg.answer))]
    /\ UNCHANGED <<arg, reqs, body, env, pc, sens, para, cleaned_question,
                   has_sensitive_content, paraphrase, cleaned_answer, should_store,
                   calls, trace, resp>>

NextClean == CleanQuestionTwice \/ CleanAnswerTwice

SpecClean == InitClean /\ [][NextClean]_vars

SpecValidator == InitValidator /\ [][NextValidator]_vars
\* ------------------------------------------------------------ vocabulary
Terminal(r) == resp[r] # <<>>

Outcome(r) == resp[r][1].outcome

Status(r) == resp[r][1].status

Invoked(r, svc, site) ==
    \E i \in 1..Len(calls[r]) : calls[r][i].svc = svc /\ calls[r][i].site = site

Recorded(r, by) == \E i \in 1..Len(trace[r]) : trace[r][i].by = by

\* position of the first fact recorded by a stage (0: none)
FirstFact(r, by) ==
    IF Recorded(r, by)
    THEN CHOOSE i \in 1..Len(trace[r]) :
            trace[r][i].by = by /\ \A j \in 1..(i - 1) : trace[r][j].by # by
    ELSE 0

\* retrieval, inference, validation or the answer-level sensitivity check
LaterStageInvoked(r) ==
    \/ Invoked(r, "prefiltering", "question")
    \/ Invoked(r, "inference", "question")
    \/ Invoked(r, "validator", "answer")
    \/ Invoked(r, "sensitivity", "answer")

\* ------------------------------------------------------------------ claims
\* C1: whatever the downstream services do, a request gets at most one
\* terminal outcome and eventually exactly one; after the terminal outcome
\* no stage is invoked and no second outcome is produced; and a request
\* whose paraphrase lookup found a match never invokes retrieval, inference,
\* validation or the answer-level sensitivity check.
C1_OneOutcomeNoLaterStage ==
    /\ [](\A r \in reqs :
            /\ Len(resp[r]) <= 1
            /\ (pc[r] = "done") <=> Terminal(r)
            /\ paraphrase[r].found => ~ LaterStageInvoked(r))
    /\ [][\A r \in reqs : Terminal(r) => calls'[r] = calls[r] /\ resp'[r] = resp[r]]_vars
    /\ <>(\A r \in reqs : Len(resp[r]) = 1)

\* a gold-standard answer was returned after exactly the two fan-out calls
C1_Witness ==
    \E r \in reqs :
        /\ Terminal(r)
        /\ Outcome(r) = "GoldStandardAnswer"
        /\ Len(calls[r]) = 2

\* C2: when the sensitivity service reports UNSAFE for the question, the
\* request ends as RejectedSensitiveQuestion (400, empty body) whatever the
\* order in which the two fan-out operations completed; the matched answer
\* is not in the response, and retrieval and inference are never called.
C2_UnsafeQuestionRejected ==
    \A r \in reqs :
        env[r].sensQ = "UNSAFE" =>
            /\ ~ Invoked(r, "prefiltering", "question")
            /\ ~ Invoked(r, "inference", "question")
            /\ Terminal(r) => resp[r][1] = Response(400, "RejectedSensitiveQuestion")

\* rejected although the paraphrase match was recorded before the verdict
C2_Witness ==
    \E r \in reqs :
        /\ Terminal(r)
        /\ Status(r) = 400
        /\ env[r].sensQ = "UNSAFE"
        /\ paraphrase[r].found
        /\ FirstFact(r, "paraphrase") < FirstFact(r, "sensitive_content_detection_question")

\* C3: a 200 answer is returned only when the sensitivity service was
\* called on the question and answered SAFE; a model answer (is_gs_answer
\* false) only when it was also called on that answer and answered SAFE.
C3_AnswerOnlyAfterSafeVerdicts ==
    \A r \in reqs :
        (Terminal(r) /\ Status(r) = 200) =>
            /\ Invoked(r, "sensitivity", "question")
            /\ sens[r] = "done"
            /\ env[r].sensQ = "SAFE"
            /\ ~ resp[r][1].is_gs_answer =>
                  /\ \E i \in 1..Len(calls[r]) :
                        calls[r][i] = Call("sensitivity", "answer", resp[r][1].answer)
                  /\ Recorded(r, "sensitive_content_detection_answer")
                  /\ env[r].sensA = "SAFE"

\* a model answer was returned
C3_Witness ==
    \E r \in reqs :
        /\ Terminal(r)
        /\ Status(r) = 200
        /\ ~ resp[r][1].is_gs_answer
        /\ resp[r][1].answer = Paris

\* C4: the paraphrase lookup fails open.  Of two requests that differ only
\* in the paraphrase service raising ("req") or finding nothing ("twin"),
\* the first never sees the exception (its lookup task returns None), and
\* once both are answered they got the same response after the same
\* downstream calls.
C4_ParaphraseFailsOpen ==
    /\ para["req"] # "raised"
    /\ para["req"] = "done" => paraphrase["req"] = NoParaphrase
    /\ (Terminal("req") /\ Terminal("twin")) =>
          /\ resp["req"] = resp["twin"]
          /\ calls["req"] = calls["twin"]

\* both requests were answered past the branch, the first one with the
\* paraphrase exception on record
C4_Witness ==
    /\ Terminal("req")
    /\ Terminal("twin")
    /\ Recorded("req", "paraphrase")
    /\ ~ Recorded("twin", "paraphrase")
    /\ Outcome("req") = "ModelAnswer"

InFlight(r) == sens[r] \in {"ready", "await"} \/ para[r] \in {"ready", "await"}

\* C5: the controller waits for both fan-out operations: no branching
\* decision is taken and no terminal outcome is produced while the
\* sensitivity check or the paraphrase lookup is still in flight, also
\* when the sensitivity call raises.
C5_JoinBeforeOutcome ==
    \A r \in reqs : (Terminal(r) \/ pc[r] \notin {"start", "gather"}) => ~ InFlight(r)

\* C6: a failure of the sensitivity, prefiltering or inference service ends
\* the request with the failure outcome of that stage (500, 412, 400), with
\* no answer in the response and no later stage invoked; a sensitivity
\* failure on the question does so even when the paraphrase lookup matched.
C6_UpstreamFailuresAreFatal ==
    \A r \in reqs :
        /\ (Invoked(r, "sensitivity", "question") /\ env[r].sensQ = "raise") =>
              /\ ~ LaterStageInvoked(r)
              /\ Terminal(r) => resp[r][1] = SensitivityFailure /\ Status(r) = 500
        /\ (Invoked(r, "prefiltering", "question") /\ env[r].retr = "raise") =>
              /\ ~ Invoked(r, "inference", "question")
              /\ ~ Invoked(r, "validator", "answer")
              /\ ~ Invoked(r, "sensitivity", "answer")
              /\ Terminal(r) =>
                    /\ Outcome(r) = "UpstreamFailure(retrieval)"
                    /\ Status(r) = 412
                    /\ resp[r][1].answer = None
        /\ (Invoked(r, "inference", "question") /\ env[r].inf.kind = "raise") =>
              /\ ~ Invoked(r, "validator", "answer")
              /\ ~ Invoked(r, "sensitivity", "answer")
              /\ Terminal(r) =>
                    /\ Outcome(r) = "UpstreamFailure(inference)"
                    /\ Status(r) = 400
                    /\ resp[r][1].answer = None
        /\ (Invoked(r, "sensitivity", "answer") /\ env[r].sensA = "raise" /\ Terminal(r)) =>
                    /\ Outcome(r) = "UpstreamFailure(sensitivity)"
                    /\ Status(r) = 500
                    /\ resp[r][1].answer = None

\* the question-level sensitivity failed although a paraphrase match had
\* come back, and the request ended with 500
C6_Witness ==
    \E r \in reqs :
        /\ Terminal(r)
        /\ Status(r) = 500
        /\ env[r].sensQ = "raise"
        /\ paraphrase[r].found

\* C7: a SAFE question with a paraphrase match is answered 200 with
\* is_gs_answer true, answer_validity "valid", the cleaned question and the
\* match's gs_answer_content_str as it came (neither trimmed nor
\* validated); no other request gets is_gs_answer true.
C7_GoldStandardAnswer ==
    \A r \in reqs :
        Terminal(r) =>
            /\ (env[r].sensQ = "SAFE" /\ env[r].para.kind = "match") =>
                  resp[r][1] =
                     [status |-> 200, outcome |-> "GoldStandardAnswer",
                      answer |-> env[r].para.gs_answer_content_str,
                      question |-> Strip(body[r].query),
                      answer_validity |-> "valid", is_gs_answer |-> TRUE, detail |-> ""]
            /\ resp[r][1].is_gs_answer =>
                  env[r].sensQ = "SAFE" /\ env[r].para.kind = "match"

\* a gold-standard answer with surrounding blanks was returned as it came,
\* for a question that had to be cleaned
C7_Witness ==
    \E r \in reqs :
        /\ Terminal(r)
        /\ resp[r][1].is_gs_answer
        /\ resp[r][1].answer # Strip(resp[r][1].answer)
        /\ resp[r][1].question # body[r].query

\* C8: for a SAFE question without paraphrase, an empty answer of the
\* prefiltering service ends the request as NoDocumentFound (404) without
\* an inference call, while an exception of that service ends it with 412
\* and a different outcome.
C8_NoDocumentIsNotAFailure ==
    \A r \in reqs :
        (env[r].sensQ = "SAFE" /\ env[r].para.kind # "match") =>
            /\ env[r].retr = "empty" =>
                  /\ ~ Invoked(r, "inference", "question")
                  /\ Terminal(r) => resp[r][1] = Response(404, "NoDocumentFound")
            /\ (env[r].retr = "raise" /\ Terminal(r)) =>
                  /\ Status(r) = 412
                  /\ Outcome(r) # "NoDocumentFound"

\* the prefiltering service was asked, found nothing, and the request
\* ended with 404
C8_Witness ==
    \E r \in reqs :
        /\ Terminal(r)
        /\ Invoked(r, "prefiltering", "question")
        /\ env[r].retr = "empty"
        /\ Status(r) = 404

\* the answers that must be rejected: absent, empty, blank, or the
\* language's "unknown" sentinel in any letter case
Unusable(answer, language) ==
    \/ answer = None
    \/ Strip(answer) = <<>>
    \/ StrLower(Strip(answer)) \in UnknownResponse(language)

\* C9: an answer of the inference service that is absent, empty, blank or
\* the language's "unknown" sentinel ends the request as InvalidModelAnswer
\* (404) and is never sent to the answer-level sensitivity check.
C9_UnusableAnswerRejected ==
    \A r \in reqs :
        (Invoked(r, "inference", "question") /\ env[r].inf.kind = "ok"
            /\ Unusable(env[r].inf.answer, body[r].language)) =>
            /\ ~ Invoked(r, "sensitivity", "answer")
            /\ Terminal(r) => resp[r][1] = Response(404, "InvalidModelAnswer")

\* equality of two texts up to letter case
EqualsIgnoreCase(a, b) ==
    /\ Len(a) = Len(b)
    /\ \A i \in 1..Len(a) : LowerChar(a[i]) = LowerChar(b[i])

\* the "unknown" sentinels of a language
Sentinels(language) ==
    IF language = EN
    THEN {<<"u","n","k","n","o","w","n">>, <<"u","n","k","n","o","w","n",".">>}
    ELSE {<<"u","n","b","e","k","a","n","n","t">>,
          <<"u","n","b","e","k","a","n","n","t",".">>}

IsSentinel(answer, language) ==
    \E t \in Sentinels(language) : EqualsIgnoreCase(answer, t)

\* C10 as stated: the validator rejects exactly the empty or absent answer
\* and the answer whose trimmed text is, in any letter case, the sentinel
\* of the language; so " unknown " is invalid for English.
C10_ValidatorTrims ==
    result.how = "validator" =>
        result.valid = ~ (arg.answer = None \/ arg.answer = <<>>
                          \/ IsSentinel(Strip(arg.answer), arg.language))

\* C10 as amended: the validator rejects exactly the empty or absent answer
\* and the answer that is, as given and in any letter case, the sentinel of
\* the language; it does not trim.  On the answer cleaned by _clean_answer,
\* as the controller calls it, it rejects exactly the blank answer and the
\* answer whose trimmed text is the sentinel.  "Unknown" and "UNKNOWN." are
\* invalid for English, " unknown " is invalid for English once cleaned,
\* "Unbekannt" is invalid for German, "unknown" is valid for German.
C10_ValidatorOnCleanedAnswer ==
    /\ result.how = "validator" =>
          result.valid = ~ (arg.answer = None \/ arg.answer = <<>>
                            \/ IsSentinel(arg.answer, arg.language))
    /\ result.how = "cleaned" =>
          result.valid = ~ (Strip(arg.answer) = <<>>
                            \/ IsSentinel(Strip(arg.answer), arg.language))
    /\ (result.how # "none" /\ arg.language = EN
          /\ arg.answer \in {<<"U","n","k","n","o","w","n">>,
                             <<"U","N","K","N","O","W","N",".">>}) => ~ result.valid
    /\ (result.how = "cleaned" /\ arg.language = EN
          /\ arg.answer = <<" ","u","n","k","n","o","w","n"," ">>) => ~ result.valid
    /\ (result.how # "none" /\ arg.language = DE
          /\ arg.answer = <<"U","n","b","e","k","a","n","n","t">>) => ~ result.valid
    /\ (result.how # "none" /\ arg.language = DE
          /\ arg.answer = <<"u","n","k","n","o","w","n">>) => result.valid

\* " unknown " was cleaned, validated for English and rejected
C10_Witness ==
    /\ result.how = "cleaned"
    /\ arg.language = EN
    /\ arg.answer = <<" ","u","n","k","n","o","w","n"," ">>
    /\ ~ result.valid

\* the stages of the pipeline: the downstream call of each and the name
\* under which it records
Stages ==
    {[svc |-> "sensitivity", site |-> "question",
      by |-> "sensitive_content_detection_question"],
     [svc |-> "paraphrase", site |-> "question", by |-> "paraphrase"],
     [svc |-> "prefiltering", site |-> "question", by |-> "preselection"],
     [svc |-> "inference", site |-> "question", by |-> "inference"],
     [svc |-> "sensitivity", site |-> "answer",
      by |-> "sensitive_content_detection_answer"]}

\* a fact that holds the duration of its step, or an error
HoldsDurationOrError(f) == "duration" \in f.fields \/ "error" \in f.top

\* C11: when the terminal outcome is produced, every stage that was invoked
\* has a record in the transaction, holding its duration and result or its
\* error, whatever the stage returned.
C11_EveryStageRecorded ==
    \A r \in reqs :
        Terminal(r) =>
            \A s \in Stages :
                Invoked(r, s.svc, s.site) =>
                    \E i \in 1..Len(trace[r]) :
                        trace[r][i].by = s.by /\ HoldsDurationOrError(trace[r][i])

\* C11 without the terminal outcomes produced while the paraphrase task is
\* still in flight: the lookup that finds nothing records nothing
C11_EveryFinishedStageRecorded ==
    \A r \in reqs :
        (Terminal(r) /\ ~ InFlight(r)) =>
            \A s \in Stages :
                Invoked(r, s.svc, s.site) =>
                    \E i \in 1..Len(trace[r]) :
                        trace[r][i].by = s.by /\ HoldsDurationOrError(trace[r][i])

\* C12: no call site retries.  In a request the paraphrase, prefiltering
\* and inference services are called at most once each and the sensitivity
\* service at most once for the question and once for the answer, also
\* when the call failed.
C12_NoRetries ==
    \A r \in reqs : \A s \in Stages : Attempts(r, s.svc, s.site) <= 1

\* the prefiltering service failed, the request is over, and the service
\* was asked once
C12_Witness ==
    \E r \in reqs :
        /\ Terminal(r)
        /\ env[r].retr = "raise"
        /\ Attempts(r, "prefiltering", "question") = 1
        /\ Outcome(r) = "UpstreamFailure(retrieval)"

\* t is x without its leading and trailing whitespace, and nothing else
\* is removed
IsTrimOf(t, x) ==
    \E i \in 1..(Len(x) + 1), j \in 0..Len(x) :
        /\ t = SubSeq(x, i, j)
        /\ \A k \in 1..(i - 1) : x[k] \in Ws
        /\ \A k \in (j + 1)..Len(x) : x[k] \in Ws
        /\ t = <<>> \/ (t[1] \notin Ws /\ t[Len(t)] \notin Ws)

\* C13: every downstream call about the question gets the trimmed question;
\* the validator and the answer-level sensitivity check get the trimmed
\* model answer; and a 200 response carries the trimmed question and, for a
\* model answer, the trimmed answer.
C13_CleanedTextsEverywhere ==
    \A r \in reqs :
        /\ \A i \in 1..Len(calls[r]) :
              IF calls[r][i].site = "question"
              THEN IsTrimOf(calls[r][i].text, body[r].query)
              ELSE IsTrimOf(calls[r][i].text, env[r].inf.answer)
        /\ (Terminal(r) /\ Status(r) = 200) =>
              /\ IsTrimOf(resp[r][1].question, body[r].query)
              /\ ~ resp[r][1].is_gs_answer =>
                    IsTrimOf(resp[r][1].answer, env[r].inf.answer)

\* a model answer was returned for a question and an answer that both
\* came with surrounding whitespace
C13_Witness ==
    \E r \in reqs :
        /\ Terminal(r)
        /\ Outcome(r) = "ModelAnswer"
        /\ resp[r][1].question # body[r].query
        /\ resp[r][1].answer # env[r].inf.answer
        /\ Len(calls[r]) = 6

\* C14: cleaning a cleaned text changes nothing, for _clean_question and
\* for _clean_answer, and cleaning removes the surrounding whitespace only.
C14_CleaningIdempotent ==
    result.how \in {"clean_question", "clean_answer"} =>
        /\ result.twice = result.once
        /\ IsTrimOf(result.once, arg.answer)

\* a text with whitespace on both sides and inside was cleaned
C14_Witness ==
    /\ result.how = "clean_answer"
    /\ arg.answer = <<"\t","u","n"," ","k","n","o","w","n","\n">>
    /\ result.once = <<"u","n"," ","k","n","o","w","n">>

\* the keys of the transaction a fact map writes: its top-level keys, with
\* pipeline_steps narrowed to the step it carries
KeysOf(f) ==
    {<<k, "">> : k \in f.top \ {"pipeline_steps"}}
        \cup (IF "pipeline_steps" \in f.top THEN {<<"pipeline_steps", f.step>>} ELSE {})

\* the keys written by a stage of a request so far
KeysBy(r, by) ==
    UNION {KeysOf(trace[r][i]) : i \in {j \in 1..Len(trace[r]) : trace[r][j].by = by}}

\* C15: the two branches of the fan-out never write the same key of the
\* transaction, also when the sensitivity call or the paraphrase call fails.
C15_BranchesWriteDisjointKeys ==
    \A r \in reqs :
        KeysBy(r, "sensitive_content_detection_question") \cap KeysBy(r, "paraphrase") = {}

\* C16: nothing is recorded in the transaction of a request after its
\* terminal outcome was produced.
C16_NoRecordAfterOutcome ==
    [][\A r \in reqs : Terminal(r) => trace'[r] = trace[r]]_vars

\* the fact maps that report a failure
ErrorFacts(r) == {i \in 1..Len(trace[r]) : "error" \in trace[r][i].top}

\* the accumulated state of the transaction after record() merged every
\* fact map: for the keys "error" and "exc_info" it holds what the last
\* fact map with these keys wrote; this is the stage whose failure it holds
\* (none if nothing failed)
ErrorsHeld(r) ==
    IF ErrorFacts(r) = {} THEN {}
    ELSE {trace[r][CHOOSE i \in ErrorFacts(r) : \A j \in ErrorFacts(r) : j <= i].by}

C18_DeterministicDecision ==
    (Terminal("req") /\ Terminal("twin")) =>
        /\ Outcome("req") = Outcome("twin")
        /\ Status("req") = Status("twin")
        /\ resp["req"] = resp["twin"]
        /\ calls["req"] = calls["twin"]

\* both requests were answered although their fan-outs completed in
\* different orders, which left different transactions
C18_Witness ==
    /\ Terminal("req")
    /\ Terminal("twin")
    /\ ~ InFlight("req")
    /\ ~ InFlight("twin")
    /\ trace["req"] # trace["twin"]
    /\ FirstFact("req", "paraphrase") < FirstFact("req", "sensitive_content_detection_question")
    /\ FirstFact("twin", "sensitive_content_detection_question") < FirstFact("twin", "paraphrase")

\* the sensitivity service returned a verdict for this call site
VerdictObtained(r, by) ==
    \E i \in 1..Len(trace[r]) : trace[r][i].by = by /\ "sensitivity" \in trace[r][i].fields

\* C19: a verdict other than exactly SAFE, UNSAFE or not, counts as
\* sensitive at both call sites and ends the request with 400; a 200
\* response is produced only if every verdict obtained was SAFE.
C19_OnlySafeIsSafe ==
    \A r \in reqs :
        /\ (VerdictObtained(r, "sensitive_content_detection_question")
               /\ env[r].sensQ # "SAFE") =>
              /\ ~ LaterStageInvoked(r)
              /\ Terminal(r) => resp[r][1] = Response(400, "RejectedSensitiveQuestion")
        /\ (VerdictObtained(r, "sensitive_content_detection_answer")
               /\ env[r].sensA # "SAFE") =>
              resp[r] = <<Response(400, "RejectedSensitiveAnswer")>>
        /\ (Terminal(r) /\ Status(r) = 200) =>
              /\ VerdictObtained(r, "sensitive_content_detection_question")
              /\ env[r].sensQ = "SAFE"
              /\ VerdictObtained(r, "sensitive_content_detection_answer") =>
                    env[r].sensA = "SAFE"

\* an answer with a verdict that is neither SAFE nor UNSAFE was rejected
C19_Witness ==
    \E r \in reqs :
        /\ Terminal(r)
        /\ env[r].sensA = "UNCERTAIN"
        /\ VerdictObtained(r, "sensitive_content_detection_answer")
        /\ Status(r) = 400

\* C20: every request sends its cleaned question to the paraphrase service
\* exactly once, whatever the sensitivity service says about the question:
\* never twice, always before the terminal outcome, and eventually also
\* when the question is unsafe or its sensitivity call fails; for such a
\* question the prefiltering and inference services are never called.
C20_ParaphraseAlwaysAskedOnce ==
    /\ [](\A r \in reqs :
            /\ Attempts(r, "paraphrase", "question") <= 1
            /\ Terminal(r) => Attempts(r, "paraphrase", "question") = 1
            /\ \A i \in 1..Len(calls[r]) :
                  calls[r][i].svc = "paraphrase" =>
                      IsTrimOf(calls[r][i].text, body[r].query)
            /\ env[r].sensQ # "SAFE" =>
                  /\ ~ Invoked(r, "prefiltering", "question")
                  /\ ~ Invoked(r, "inference", "question"))
    /\ <>(\A r \in reqs : Attempts(r, "paraphrase", "question") = 1)

\* the sensitivity call failed for a question that had to be cleaned, the
\* request ended with 500, and the paraphrase service had been asked
C20_Witness ==
    \E r \in reqs :
        /\ Terminal(r)
        /\ env[r].sensQ = "raise"
        /\ body[r].query # Strip(body[r].query)
        /\ Attempts(r, "paraphrase", "question") = 1
        /\ Len(calls[r]) = 2

====
